---- MODULE Spec2Model ----
(***************************************************************************)
(* Host-side service orchestration of docmind-desktop:                     *)
(*   - the chat streaming relay (CHAT_SEND / CHAT_ABORT IPC handlers),      *)
(*   - the sidecar supervisors (QdrantSidecar, PythonSidecar).              *)
(* The main process is a single-threaded event loop: every action below is *)
(* one run-to-completion step of a handler, from one await to the next.    *)
(***************************************************************************)
EXTENDS Integers, Sequences, FiniteSets, Bags, TLC

\* ---------------------------------------------------------------- bounds
MaxSessions == 2      \* chat.send requests per behaviour
MaxChunk == 1         \* symbols delivered by one reader.read()
MaxBuf == 1           \* symbols of an incomplete line kept in `buffer`

MaxRestarts == 1      \* services.restart requests per behaviour
MaxInFlight == 2      \* IPC messages in flight between renderer and main, each way

\* ------------------------------------------------------ program constants
MaxMalformed == 20    \* `if (malformedCount > 20)`
QDRANT_HEALTH_RETRIES == 20
PYTHON_HEALTH_RETRIES == 30

\* ------------------------------------------------------------ relay data
\* One symbol of the upstream byte stream: a complete `data: {...}` record
\* of one of the four types, a `data: ` payload that is not JSON, or the
\* line terminator.
Kinds == {"token", "sources", "done", "error"}
Symbols == Kinds \cup {"bad", "nl"}

Sessions == 1..MaxSessions

RECURSIVE SeqsUpTo(_, _)
SeqsUpTo(S, n) ==
  IF n = 0 THEN {<<>>}
  ELSE LET shorter == SeqsUpTo(S, n - 1)
       IN shorter \cup {Append(q, x) : q \in {r \in shorter : Len(r) = n - 1}, x \in S}

Chunks == SeqsUpTo(Symbols, MaxChunk) \ {<<>>}

\* `buffer.split('\n')`: the complete lines and, last, the unterminated rest.
RECURSIVE Split(_, _, _)
Split(str, cur, acc) ==
  IF str = <<>> THEN Append(acc, cur)
  ELSE IF Head(str) = "nl" THEN Split(Tail(str), <<>>, Append(acc, cur))
  ELSE Split(Tail(str), Append(cur, Head(str)), acc)

SplitLines(str) == Split(str, <<>>, <<>>)

\* What one line does in the `for (const line of lines)` loop: lines without
\* the `data: ` prefix are skipped, a line that is exactly one record is
\* dispatched on its type, anything else makes JSON.parse throw.
ParseLine(line) ==
  IF Len(line) = 0 THEN "skip"
  ELSE IF Len(line) = 1 /\ line[1] \in Kinds THEN line[1]
  ELSE "malformed"

TooManyMalformedEarly(count) == count >= MaxMalformed
TooManyMalformed(count) == count > MaxMalformed

\* The record dispatch over the complete lines of one read.  st carries
\* malformedCount, whether the loop threw, and what went to the window:
\* pushed (any chat event), sentComplete (a chat:complete in this read),
\* complete (a chat:complete so far in this session), afterComplete (an event
\* sent after a chat:complete of the same session), terminal (a chat:complete
\* or a chat:error in this read).
RECURSIVE Dispatch(_, _)
Dispatch(lines, st) ==
  IF lines = <<>> \/ st.thrown THEN st
  ELSE LET what == ParseLine(Head(lines))
       IN IF what = "skip" THEN Dispatch(Tail(lines), st)
          ELSE IF what = "malformed"
            THEN Dispatch(Tail(lines),
                   [st EXCEPT !.malformedCount = @ + 1,
                              !.thrown = TooManyMalformed(st.malformedCount + 1)])
          ELSE Dispatch(Tail(lines),
                   [st EXCEPT !.pushed = TRUE,
                              !.afterComplete = @ \/ st.complete,
                              !.sentComplete = @ \/ what = "done",
                              !.terminal = @ \/ what \in {"done", "error"},
                              !.complete = @ \/ what = "done"])

VARIABLES
  activeAbortController,  \* 0 = null, else the session whose controller it is
  started,                \* number of CHAT_SEND invocations so far
  session,                \* per invocation: pc, malformedCount, buffer, timers
  signal,                 \* per invocation: controller.signal.aborted
  upstream,               \* per invocation: its HTTP call: none, live, closed
  out                     \* what the latest step sent to the window / returned

relayVars == <<activeAbortController, started, session, signal, upstream, out>>

\* QdrantSidecar and PythonSidecar are two instances with the same fields
\* and no shared state; a behaviour follows one of them, chosen by svc.
VARIABLES
  svc,       \* "qdrant" or "python"
  phase,     \* app lifecycle: boot, startup, running, quitting
  process,   \* this.process: 0 = null, else the ChildProcess it refers to
  healthy,   \* this.healthy
  procs,     \* per ChildProcess: OS state and the signals sent to it
  spawned,   \* number of spawn() calls so far
  restarts,  \* number of SERVICES_RESTART requests so far
  calls,     \* bag of the lifecycle requests in flight: their stop() / start() position
  sout       \* what the latest supervisor step returned / sent to the windows

supVars == <<svc, phase, process, healthy, procs, spawned, restarts, calls, sout>>

\* LicenseActivationService, FeatureGateManager and the gated IPC handlers.
VARIABLES
  store,       \* LicenseActivationService.store: NoStore or [key, tier]
  disk,        \* content of license.json: NoStore or the saved record
  gateTier,    \* FeatureGateManager.tier
  registered,  \* registerIPCHandlers has run in this process
  gated,       \* the gated request in progress: feature, position, side effects
  lout         \* what the latest license / gate step returned

licVars == <<store, disk, gateTier, registered, gated, lout>>

\* app.whenReady: the three startup attempts and the window.
VARIABLES
  boot,        \* per attempt (qdrant, python, ollama): position and outcome
  window,      \* createWindow() has run
  updater      \* AutoUpdaterService: tier and the electron-updater switches

bootVars == <<boot, window, updater>>

\* The renderer's chat store, the IPC channel each way, and the CHAT_SEND
\* handlers as the store sees them.
VARIABLES
  chat,              \* the store: messages, isStreaming, error, sessionId
  cleanupListeners,  \* 0 = null, else the assistant message the listeners close over
  sent,              \* number of sendMessage calls so far
  toMain,            \* ipcRenderer.invoke calls not yet handled by the main process
  toRenderer,        \* webContents.send events not yet handled by the renderer
  main,              \* main process: the controller held and each handler's position
  cout               \* what the latest store step applied, and to which message

chatVars == <<chat, cleanupListeners, sent, toMain, toRenderer, main, cout>>

vars == <<relayVars, supVars, licVars, bootVars, chatVars>>

NoSession == [pc |-> "none", malformedCount |-> 0, buffer |-> <<>>, timers |-> 0,
              completed |-> FALSE]
NoOut == [sid |-> 0, op |-> "init", pushed |-> FALSE, complete |-> FALSE,
          afterComplete |-> FALSE, err |-> "none", ret |-> "none", doneLine |-> FALSE,
          malformed |-> 0, badLines |-> 0, cancelled |-> FALSE,
          terminal |-> FALSE]
Returned == [NoSession EXCEPT !.pc = "returned"]

InitRelay ==
  /\ activeAbortController = 0
  /\ started = 0
  /\ session = [s \in Sessions |-> NoSession]
  /\ signal = [s \in Sessions |-> FALSE]
  /\ upstream = [s \in Sessions |-> "none"]
  /\ out = NoOut

\* `controller.abort()`: sets the signal and cancels the HTTP call if any.
Abort(sig, s) == [sig EXCEPT ![s] = TRUE]
AbortUpstream(up, s) == [up EXCEPT ![s] = IF @ = "live" THEN "closed" ELSE @]

\* `finally { if (activeAbortController === controller) ... = null }`
Release(active, s) == IF active = s THEN 0 ELSE active

\* catch (non-AbortError): `win.webContents.send('chat:error', String(error))`,
\* `return { error }`, then the finally block.
FailWith(s, op, kind) ==
  /\ out' = [NoOut EXCEPT !.sid = s, !.op = op, !.pushed = TRUE,
                          !.afterComplete = session[s].completed,
                          !.err = kind, !.ret = "error", !.terminal = TRUE]
  /\ session' = [session EXCEPT ![s] = Returned]
  /\ activeAbortController' = Release(activeAbortController, s)

\* An aborted handler whose rejected await has not resumed yet.  The rejection
\* is queued by controller.abort() itself, so the handler resumes in the
\* microtask checkpoint that follows, before any other callback runs.
PendingAbort(s) == signal[s] /\ session[s].pc \in {"fetch", "errtext", "read"}
MicrotasksDrained == \A s \in Sessions : ~PendingAbort(s)

\* CHAT_SEND up to `await fetch(...)`.
ChatSend ==
  /\ UNCHANGED <<supVars, licVars, bootVars, chatVars>>
  /\ MicrotasksDrained
  /\ started < MaxSessions
  /\ LET s == started + 1
         old == activeAbortController
     IN /\ started' = s
        /\ signal' = IF old # 0 THEN Abort(signal, old) ELSE signal
        /\ upstream' = [(IF old # 0 THEN AbortUpstream(upstream, old) ELSE upstream)
                          EXCEPT ![s] = "live"]
        /\ activeAbortController' = s
        /\ session' = [session EXCEPT ![s] = [NoSession EXCEPT !.pc = "fetch"]]
        /\ out' = [NoOut EXCEPT !.sid = s, !.op = "send"]

\* CHAT_ABORT: abort and drop the controller if there is one; `return true`.
ChatAbort ==
  /\ UNCHANGED <<supVars, licVars, bootVars, chatVars>>
  /\ MicrotasksDrained
  /\ IF activeAbortController # 0
       THEN /\ signal' = Abort(signal, activeAbortController)
            /\ upstream' = AbortUpstream(upstream, activeAbortController)
            /\ activeAbortController' = 0
       ELSE UNCHANGED <<signal, upstream, activeAbortController>>
  /\ out' = [NoOut EXCEPT !.sid = activeAbortController, !.op = "abort", !.ret = "true"]
  /\ UNCHANGED <<started, session>>

\* fetch resolves with a 2xx response that has a body: enter the read loop
\* and arm the first idle timer.
FetchOk(s) ==
  /\ UNCHANGED <<supVars, licVars, bootVars, chatVars>>
  /\ MicrotasksDrained
  /\ session[s].pc = "fetch" /\ ~signal[s]
  /\ session' = [session EXCEPT ![s] = [@ EXCEPT !.pc = "read", !.timers = 1]]
  /\ out' = [NoOut EXCEPT !.sid = s, !.op = "fetchOk"]
  /\ UNCHANGED <<activeAbortController, started, signal, upstream>>

\* fetch resolves with a non-2xx response: `await response.text()`.
FetchNotOk(s) ==
  /\ UNCHANGED <<supVars, licVars, bootVars, chatVars>>
  /\ MicrotasksDrained
  /\ session[s].pc = "fetch" /\ ~signal[s]
  /\ session' = [session EXCEPT ![s] = [@ EXCEPT !.pc = "errtext"]]
  /\ out' = [NoOut EXCEPT !.sid = s, !.op = "fetchNotOk"]
  /\ UNCHANGED <<activeAbortController, started, signal, upstream>>

\* fetch rejects (connection refused), or resolves without a body.
FetchFails(s) ==
  /\ UNCHANGED <<supVars, licVars, bootVars, chatVars>>
  /\ MicrotasksDrained
  /\ session[s].pc = "fetch" /\ ~signal[s]
  /\ \E kind \in {"network", "nobody"} : FailWith(s, "fetchFails", kind)
  /\ upstream' = [upstream EXCEPT ![s] = "closed"]
  /\ UNCHANGED <<started, signal>>

\* `response.text().catch(() => '')` settles, whether the body arrived or the
\* read was rejected (also by an abort): `throw new Error('HTTP ...')`.
ErrTextSettles(s) ==
  /\ UNCHANGED <<supVars, licVars, bootVars, chatVars>>
  /\ session[s].pc = "errtext"
  /\ signal[s] \/ MicrotasksDrained
  /\ FailWith(s, "errText", "http")
  /\ upstream' = [upstream EXCEPT ![s] = IF @ = "live" THEN "closed" ELSE @]
  /\ UNCHANGED <<started, signal>>

\* The pending fetch or read rejects with AbortError: `return { aborted: true }`.
AbortObserved(s) ==
  /\ UNCHANGED <<supVars, licVars, bootVars, chatVars>>
  /\ session[s].pc \in {"fetch", "read"} /\ signal[s]
  /\ session' = [session EXCEPT ![s] = Returned]
  /\ out' = [NoOut EXCEPT !.sid = s, !.op = "abortObserved", !.ret = "aborted"]
  /\ activeAbortController' = Release(activeAbortController, s)
  /\ UNCHANGED <<started, signal, upstream>>

\* `finally { clearTimeout(timeoutId) }` around the race.
ClearTimerLeak(n) == n
ClearTimer(n) == n - 1

\* The input of one read: has it a well-formed `done` line, and how many of
\* its `data: ` lines are not one JSON record.
HasDoneLine(lines) == \E i \in 1..Len(lines) : lines[i] = <<"done">>
BadLines(lines) ==
  Cardinality({i \in 1..Len(lines) :
                 Len(lines[i]) > 1 \/ (Len(lines[i]) = 1 /\ lines[i][1] = "bad")})

\* One reader.read() wins the race with bytes: clearTimeout, decode, split,
\* dispatch every complete line, then either throw or arm the next timer.
ReadChunk(s) ==
  /\ UNCHANGED <<supVars, licVars, bootVars, chatVars>>
  /\ MicrotasksDrained
  /\ session[s].pc = "read" /\ ~signal[s] /\ upstream[s] = "live"
  /\ \E chunk \in Chunks :
       LET parts == SplitLines(session[s].buffer \o chunk)
           lines == SubSeq(parts, 1, Len(parts) - 1)
           rest == parts[Len(parts)]
           st == Dispatch(lines, [malformedCount |-> session[s].malformedCount,
                                  thrown |-> FALSE, pushed |-> FALSE,
                                  sentComplete |-> FALSE, terminal |-> FALSE,
                                  complete |-> session[s].completed,
                                  afterComplete |-> FALSE])
           cleared == ClearTimer(session[s].timers)
       IN /\ Len(rest) <= MaxBuf
          /\ IF st.thrown
               THEN /\ session' = [session EXCEPT ![s] = Returned]
                    /\ out' = [NoOut EXCEPT !.sid = s, !.op = "chunk", !.pushed = TRUE,
                                 !.complete = st.sentComplete,
                                 !.afterComplete = st.afterComplete \/ st.complete,
                                 !.err = "malformed", !.ret = "error",
                                 !.doneLine = HasDoneLine(lines),
                                 !.malformed = st.malformedCount,
                                 !.badLines = BadLines(lines),
                                 !.cancelled = TRUE, !.terminal = TRUE]
                    /\ upstream' = [upstream EXCEPT ![s] = "closed"]
                    /\ activeAbortController' = Release(activeAbortController, s)
               ELSE /\ session' = [session EXCEPT ![s] =
                                     [@ EXCEPT !.malformedCount = st.malformedCount,
                                               !.buffer = rest,
                                               !.timers = cleared + 1,
                                               !.completed = st.complete]]
                    /\ out' = [NoOut EXCEPT !.sid = s, !.op = "chunk", !.pushed = st.pushed,
                                 !.complete = st.sentComplete,
                                 !.afterComplete = st.afterComplete,
                                 !.doneLine = HasDoneLine(lines),
                                 !.malformed = st.malformedCount,
                                 !.badLines = BadLines(lines),
                                 !.terminal = st.terminal]
                    /\ UNCHANGED <<upstream, activeAbortController>>
  /\ UNCHANGED <<started, signal>>

\* reader.read() reports done: `break`, `return { streaming: true }`.
ReadDone(s) ==
  /\ UNCHANGED <<supVars, licVars, bootVars, chatVars>>
  /\ MicrotasksDrained
  /\ session[s].pc = "read" /\ ~signal[s] /\ upstream[s] = "live"
  /\ session' = [session EXCEPT ![s] = Returned]
  /\ out' = [NoOut EXCEPT !.sid = s, !.op = "readDone", !.ret = "streaming"]
  /\ upstream' = [upstream EXCEPT ![s] = "closed"]
  /\ activeAbortController' = Release(activeAbortController, s)
  /\ UNCHANGED <<started, signal>>

\* reader.read() rejects because the connection broke.
ReadFails(s) ==
  /\ UNCHANGED <<supVars, licVars, bootVars, chatVars>>
  /\ MicrotasksDrained
  /\ session[s].pc = "read" /\ ~signal[s] /\ upstream[s] = "live"
  /\ FailWith(s, "readFails", "network")
  /\ upstream' = [upstream EXCEPT ![s] = "closed"]
  /\ UNCHANGED <<started, signal>>

\* An armed idle timer fires first: the race rejects with the timeout error.
\* Nothing cancels the reader or aborts the controller on this path.
ReadTimeout(s) ==
  /\ UNCHANGED <<supVars, licVars, bootVars, chatVars>>
  /\ MicrotasksDrained
  /\ session[s].pc = "read" /\ ~signal[s] /\ session[s].timers > 0
  /\ FailWith(s, "timeout", "timeout")
  /\ UNCHANGED <<started, signal, upstream>>

\* The backend closes a call that the relay no longer reads.
UpstreamEnds(s) ==
  /\ UNCHANGED <<supVars, licVars, bootVars, chatVars>>
  /\ MicrotasksDrained
  /\ session[s].pc = "returned" /\ upstream[s] = "live"
  /\ upstream' = [upstream EXCEPT ![s] = "closed"]
  /\ out' = [NoOut EXCEPT !.sid = s, !.op = "upstreamEnds"]
  /\ UNCHANGED <<activeAbortController, started, session, signal>>

NextRelay ==
  \/ ChatSend
  \/ ChatAbort
  \/ \E s \in Sessions : FetchOk(s)
  \/ \E s \in Sessions : FetchNotOk(s)
  \/ \E s \in Sessions : FetchFails(s)
  \/ \E s \in Sessions : ErrTextSettles(s)
  \/ \E s \in Sessions : AbortObserved(s)
  \/ \E s \in Sessions : ReadChunk(s)
  \/ \E s \in Sessions : ReadDone(s)
  \/ \E s \in Sessions : ReadFails(s)
  \/ \E s \in Sessions : ReadTimeout(s)
  \/ \E s \in Sessions : UpstreamEnds(s)


\* What one invocation of the handler does next once the promise it awaits
\* settles: the fetch, the error body, the read or the idle timer.
RelayStep(s) ==
  \/ FetchOk(s)
  \/ FetchNotOk(s)
  \/ FetchFails(s)
  \/ ErrTextSettles(s)
  \/ AbortObserved(s)
  \/ ReadChunk(s)
  \/ ReadDone(s)
  \/ ReadFails(s)
  \/ ReadTimeout(s)

\* ------------------------------------------------------------ supervisors
\* Every start() spawns at most once: the startup one and one per restart.
MaxProcs == MaxRestarts + 1
Pids == 1..MaxProcs

NoProc == [state |-> "none", term |-> FALSE, kills |-> 0]
IdleCall == [pc |-> "idle", kind |-> "none", target |-> 0, i |-> 0, pid |-> 0,
             clean |-> TRUE]
NoSout == [op |-> "init", ret |-> "none", ok |-> FALSE, pid |-> 0, polls |-> 0,
           clean |-> TRUE, code |-> "none", crashPush |-> FALSE, killed |-> 0,
           before |-> 0, stopped |-> FALSE, wasHealthy |-> FALSE]

InitSup ==
  /\ svc \in {"qdrant", "python"}
  /\ phase = "boot"
  /\ process = 0
  /\ healthy = FALSE
  /\ procs = [p \in Pids |-> NoProc]
  /\ spawned = 0
  /\ restarts = 0
  /\ calls = EmptyBag
  /\ sout = NoSout

HEALTH_RETRIES == IF svc = "qdrant" THEN QDRANT_HEALTH_RETRIES ELSE PYTHON_HEALTH_RETRIES

\* getStatus().status
Status(h, proc) == IF h THEN "healthy" ELSE IF proc # 0 THEN "starting" ELSE "stopped"

\* `if (await this.checkHealth()) { this.healthy = true; return true }`
SpawnAlways(ok) == TRUE
SpawnNeeded(ok) == ~ok

\* `for (let i = 0; i < HEALTH_RETRIES; i++)` is left after `checks` probes.
ExhaustedLate(checks, retries) == checks > retries
Exhausted(checks, retries) == checks >= retries

\* Only PythonSidecar's exit handler sends 'service:crashed'.
WasCrash(code) == code = "nonzero"
CrashPush(service, code) == service = "python" /\ WasCrash(code)

\* Requests in flight; one that has returned leaves the bag.
InFlight == BagToSet(calls)
With(B, call) == IF call.pc = "idle" THEN B ELSE B (+) SetToBag({call})
Without(B, call) == B (-) SetToBag({call})
Replace(B, old, new) == With(Without(B, old), new)

\* A start() that is polling has seen a process exit or a stop() step.
Disturbed(call) == IF call.pc = "poll" THEN [call EXCEPT !.clean = FALSE] ELSE call

\* start() is entered: the initial checkHealth() is in flight.
Probing(kind) == [IdleCall EXCEPT !.pc = "probe", !.kind = kind]

\* What a request does once its stop() has returned: SERVICES_RESTART goes on
\* to `return x.start()`, before-quit is done with this sidecar.
AfterStop(call) == IF call.kind = "restart" THEN Probing("restart") ELSE IdleCall

\* A start() returns; the startup one lets app.whenReady go on to createWindow().
AfterStart(call) == IF call.kind = "startup" /\ phase = "startup" THEN "running" ELSE phase

\* What a step of the supervisor does to a request in flight: the exit of
\* process p resumes the stop() calls waiting on p (p = 0: no exit), and a
\* polling start() has been disturbed.
OnExit(call, p) ==
  IF p # 0 /\ call.pc = "stopWait" /\ call.target = p THEN AfterStop(call)
  ELSE Disturbed(call)

\* OnExit applied to every request of the bag; those that returned drop out.
RECURSIVE Resumed(_, _, _)
Resumed(B, todo, p) ==
  IF todo = {} THEN EmptyBag
  ELSE LET call == CHOOSE x \in todo : TRUE
           rest == Resumed(B, todo \ {call}, p)
       IN IF OnExit(call, p).pc = "idle" THEN rest
          ELSE rest (+) [x \in {OnExit(call, p)} |-> CopiesIn(call, B)]

\* app.whenReady: `Promise.allSettled([qdrant.start(), python.start(), ...])`.
AppReady ==
  /\ UNCHANGED <<relayVars, licVars, bootVars, chatVars>>
  /\ phase = "boot"
  /\ phase' = "startup"
  /\ calls' = With(calls, Probing("startup"))
  /\ sout' = [NoSout EXCEPT !.op = "appReady"]
  /\ UNCHANGED <<svc, process, healthy, procs, spawned, restarts>>

\* stop() up to its await, for a request of the given kind: no-op without a
\* handle, else SIGTERM, the 5 s timer and the exit listener on this.process.
StopEnter(kind, op) ==
  IF process = 0
    THEN /\ calls' = With(calls, AfterStop([IdleCall EXCEPT !.kind = kind]))
         /\ procs' = procs
         /\ sout' = [NoSout EXCEPT !.op = op, !.before = process, !.stopped = TRUE]
    ELSE /\ procs' = [procs EXCEPT ![process] = [@ EXCEPT !.term = TRUE]]
         /\ calls' = With(Resumed(calls, InFlight, 0),
                          [IdleCall EXCEPT !.pc = "stopWait", !.kind = kind,
                                           !.target = process])
         /\ sout' = [NoSout EXCEPT !.op = op, !.pid = process, !.before = process]

\* SERVICES_RESTART for this sidecar: `await x.stop(); return x.start()`.
\* The renderer that sends it exists once the startup start() has returned.
Restart ==
  /\ UNCHANGED <<relayVars, licVars, bootVars, chatVars>>
  /\ phase = "running" /\ restarts < MaxRestarts
  /\ restarts' = restarts + 1
  /\ StopEnter("restart", "restart")
  /\ UNCHANGED <<svc, phase, process, healthy, spawned>>

\* before-quit (first time): `Promise.allSettled([qdrant.stop(), python.stop()])`.
BeforeQuit ==
  /\ UNCHANGED <<relayVars, licVars, bootVars, chatVars>>
  /\ phase \in {"startup", "running"}
  /\ phase' = "quitting"
  /\ StopEnter("quit", "beforeQuit")
  /\ UNCHANGED <<svc, process, healthy, spawned, restarts>>

\* The initial probe of a start() settles: external instance found, or no
\* executable, or spawn and enter waitForHealthy().
StartProbed ==
  /\ UNCHANGED <<relayVars, licVars, bootVars, chatVars>>
  /\ \E call \in InFlight :
       /\ call.pc = "probe"
       /\ \E ok \in BOOLEAN, binary \in BOOLEAN :
            IF ~SpawnNeeded(ok)
              THEN /\ healthy' = TRUE
                   /\ calls' = Without(calls, call)
                   /\ phase' = AfterStart(call)
                   /\ sout' = [NoSout EXCEPT !.op = "startProbed", !.ok = ok, !.ret = "true",
                                             !.before = process]
                   /\ UNCHANGED <<process, procs, spawned>>
              ELSE IF ~binary
                THEN /\ calls' = Without(calls, call)
                     /\ phase' = AfterStart(call)
                     /\ sout' = [NoSout EXCEPT !.op = "startProbed", !.ok = ok, !.ret = "false",
                                               !.before = process]
                     /\ UNCHANGED <<process, healthy, procs, spawned>>
                ELSE /\ spawned < MaxProcs
                     /\ spawned' = spawned + 1
                     /\ procs' = [procs EXCEPT ![spawned + 1] = [NoProc EXCEPT !.state = "running"]]
                     /\ process' = spawned + 1
                     /\ calls' = Replace(calls, call,
                                         [call EXCEPT !.pc = "poll", !.pid = spawned + 1])
                     /\ sout' = [NoSout EXCEPT !.op = "startProbed", !.ok = ok,
                                               !.pid = spawned + 1, !.before = process]
                     /\ UNCHANGED <<healthy, phase>>
       /\ UNCHANGED <<svc, restarts>>

\* One iteration of waitForHealthy(): a probe and, if it failed, the sleep;
\* on leaving the loop `this.healthy = <result>; return this.healthy`.
StartPoll ==
  /\ UNCHANGED <<relayVars, licVars, bootVars, chatVars>>
  /\ \E call \in InFlight :
       /\ call.pc = "poll"
       /\ \E ok \in BOOLEAN :
            LET checks == call.i + 1
            IN IF ok
                 THEN /\ healthy' = TRUE
                      /\ calls' = Without(calls, call)
                      /\ phase' = AfterStart(call)
                      /\ sout' = [NoSout EXCEPT !.op = "startHealthy", !.ok = TRUE, !.ret = "true",
                                                !.pid = call.pid, !.polls = checks,
                                                !.clean = call.clean]
                 ELSE IF Exhausted(checks, HEALTH_RETRIES)
                   THEN /\ healthy' = FALSE
                        /\ calls' = Without(calls, call)
                        /\ phase' = AfterStart(call)
                        /\ sout' = [NoSout EXCEPT !.op = "startExhausted", !.ret = "false",
                                                  !.pid = call.pid, !.polls = checks,
                                                  !.clean = call.clean]
                   ELSE /\ calls' = Replace(calls, call, [call EXCEPT !.i = checks])
                        /\ sout' = [NoSout EXCEPT !.op = "poll"]
                        /\ UNCHANGED <<healthy, phase>>
       /\ UNCHANGED <<svc, process, procs, spawned, restarts>>

\* The 5 s timer of a waiting stop() fires: SIGKILL to whatever this.process
\* is now, resolve, and stop() finishes: `this.process = null; this.healthy = false`.
StopTimer ==
  /\ UNCHANGED <<relayVars, licVars, bootVars, chatVars>>
  /\ \E call \in InFlight :
       /\ call.pc = "stopWait"
       /\ procs' = IF process # 0
                     THEN [procs EXCEPT ![process] = [@ EXCEPT !.kills = @ + 1]]
                     ELSE procs
       /\ process' = 0
       /\ healthy' = FALSE
       /\ calls' = With(Resumed(Without(calls, call), BagToSet(Without(calls, call)), 0),
                        AfterStop(call))
       /\ sout' = [NoSout EXCEPT !.op = "stopTimer", !.killed = process,
                                 !.pid = call.target, !.before = process, !.stopped = TRUE]
       /\ UNCHANGED <<svc, phase, spawned, restarts>>

\* ChildProcess p emits 'exit': the handler registered by start(), then the
\* listener of every stop() waiting on p (clearTimeout, resolve, finish).
ProcExit(p) ==
  /\ UNCHANGED <<relayVars, licVars, bootVars, chatVars>>
  /\ procs[p].state = "running"
  /\ \E code \in {"zero", "nonzero", "null"} :
       /\ code = "null" => (procs[p].term \/ procs[p].kills > 0)
       /\ sout' = [NoSout EXCEPT !.op = "exit", !.pid = p, !.code = code,
                                 !.crashPush = CrashPush(svc, code),
                                 !.killed = procs[p].kills, !.before = process,
                                 !.wasHealthy = healthy,
                                 !.stopped = \E call \in InFlight :
                                    call.pc = "stopWait" /\ call.target = p]
  /\ procs' = [procs EXCEPT ![p] = [NoProc EXCEPT !.state = "exited"]]
  /\ healthy' = FALSE
  /\ process' = 0
  /\ calls' = Resumed(calls, InFlight, p)
  /\ UNCHANGED <<svc, phase, spawned, restarts>>

\* SERVICES_STATUS, sent by the renderer's 10 s interval: getStatus() of the
\* supervisor; it reads the fields and probes nothing.
ServicesStatus ==
  /\ UNCHANGED <<relayVars, licVars, bootVars, chatVars>>
  /\ phase = "running"
  /\ sout' = [NoSout EXCEPT !.op = "status", !.ret = Status(healthy, process),
                            !.before = process]
  /\ UNCHANGED <<svc, phase, process, healthy, procs, spawned, restarts, calls>>

\* A session in which the user requests neither a restart nor a quit: the
\* startup start(), the exits of the process, and the status polls.
NextStatus ==
  \/ AppReady
  \/ StartProbed
  \/ StartPoll
  \/ ServicesStatus
  \/ \E p \in Pids : ProcExit(p)

NextSup ==
  \/ AppReady
  \/ Restart
  \/ BeforeQuit
  \/ StartProbed
  \/ StartPoll
  \/ StopTimer
  \/ \E p \in Pids : ProcExit(p)

\* ---------------------------------------------------------------- license
\* Strings are sequences of one-character strings.
HexDigits == <<"0", "1", "2", "3", "4", "5", "6", "7", "8", "9",
               "a", "b", "c", "d", "e", "f">>
Chars == HexDigits \o <<"A", "B", "C", "D", "E", "F", "I", "M", "N", "O", "P", "R",
                        "T", "o", "p", "r", " ", "-">>

\* The letters of the model alphabet, lower case then upper case.
CasePairs == {<<"a", "A">>, <<"b", "B">>, <<"c", "C">>, <<"d", "D">>, <<"e", "E">>,
              <<"f", "F">>, <<"o", "O">>, <<"p", "P">>, <<"r", "R">>}

UpperChar(c) == IF \E pr \in CasePairs : pr[1] = c
                  THEN (CHOOSE pr \in CasePairs : pr[1] = c)[2] ELSE c
LowerChar(c) == IF \E pr \in CasePairs : pr[2] = c
                  THEN (CHOOSE pr \in CasePairs : pr[2] = c)[1] ELSE c

\* String.prototype.toUpperCase / toLowerCase
ToUpperCase(s) == [i \in 1..Len(s) |-> UpperChar(s[i])]
ToLowerCase(s) == [i \in 1..Len(s) |-> LowerChar(s[i])]

\* String.prototype.trim
RECURSIVE TrimStart(_)
TrimStart(s) == IF s # <<>> /\ Head(s) = " " THEN TrimStart(Tail(s)) ELSE s
RECURSIVE TrimEnd(_)
TrimEnd(s) ==
  IF s # <<>> /\ s[Len(s)] = " " THEN TrimEnd(SubSeq(s, 1, Len(s) - 1)) ELSE s
Trim(s) == TrimEnd(TrimStart(s))

\* key.split('-') and parts.join('-')
RECURSIVE SplitDash(_, _, _)
SplitDash(str, cur, acc) ==
  IF str = <<>> THEN Append(acc, cur)
  ELSE IF Head(str) = "-" THEN SplitDash(Tail(str), <<>>, Append(acc, cur))
  ELSE SplitDash(Tail(str), Append(cur, Head(str)), acc)
KeyParts(key) == SplitDash(key, <<>>, <<>>)

RECURSIVE JoinDash(_)
JoinDash(parts) ==
  IF Len(parts) = 0 THEN <<>>
  ELSE IF Len(parts) = 1 THEN parts[1]
  ELSE parts[1] \o <<"-">> \o JoinDash(Tail(parts))

\* s.slice(0, n) and s.slice(-n)
SliceTo(s, n) == SubSeq(s, 1, IF n < Len(s) THEN n ELSE Len(s))
SliceLast(s, n) == SubSeq(s, IF n < Len(s) THEN Len(s) - n + 1 ELSE 1, Len(s))

\* createHmac('sha256', secret).update(message).digest('hex'): a keyed hash
\* of the whole message, rendered as 64 lower-case hex digits.
DIGEST_HEX_LEN == 64
CharCode(c) == CHOOSE i \in 1..Len(Chars) : Chars[i] = c
RECURSIVE Mix(_, _)
Mix(msg, h) ==
  IF msg = <<>> THEN h ELSE Mix(Tail(msg), (h * 31 + CharCode(Head(msg))) % 65521)
RECURSIVE Pow16(_)
Pow16(n) == IF n = 0 THEN 1 ELSE 16 * Pow16(n - 1)
DigestChar(msg, k) ==
  HexDigits[((Mix(msg, 7 + ((k - 1) \div 4)) \div Pow16((k - 1) % 4)) % 16) + 1]
DigestPrefix(msg, n) ==
  [k \in 1..(IF n < DIGEST_HEX_LEN THEN n ELSE DIGEST_HEX_LEN) |-> DigestChar(msg, k)]

DOCMIND == <<"D", "O", "C", "M", "I", "N", "D">>
PRO == <<"P", "R", "O">>
TEAM == <<"T", "E", "A", "M">>

\* validateFormat(key)
MIN_PAYLOAD_LEN == 6
PayloadTooShort(payload) == Len(payload) < MIN_PAYLOAD_LEN
ValidateFormat(key) ==
  LET parts == KeyParts(key)
  IN IF Len(parts) < 4 \/ parts[1] # DOCMIND THEN [valid |-> FALSE, error |-> "format"]
     ELSE IF parts[2] # PRO THEN [valid |-> FALSE, error |-> "tier"]
     ELSE IF PayloadTooShort(parts[3]) THEN [valid |-> FALSE, error |-> "short"]
     ELSE [valid |-> TRUE, error |-> "none"]

\* validateSignature(key): the last segment against the digest of the rest,
\* cut to the length of that segment.
ValidateSignature(key) ==
  LET parts == KeyParts(key)
      signature == ToLowerCase(parts[Len(parts)])
      message == JoinDash(SubSeq(parts, 1, Len(parts) - 1))
  IN signature = DigestPrefix(message, Len(signature))

\* The result of activate(key) and the record it stores on success.
Normalize(key) == ToUpperCase(Trim(key))
ActivateResult(key) ==
  LET normalized == Normalize(key)
      formatCheck == ValidateFormat(normalized)
  IN IF ~formatCheck.valid THEN [valid |-> FALSE, tier |-> "none", error |-> formatCheck.error]
     ELSE IF ~ValidateSignature(normalized)
       THEN [valid |-> FALSE, tier |-> "none", error |-> "invalid"]
     ELSE [valid |-> TRUE, tier |-> "pro", error |-> "none"]

\* maskKey(key)
MaskKey(key) ==
  LET parts == KeyParts(key)
  IN IF Len(parts) < 4 THEN <<"*", "*", "*", "*">>
     ELSE DOCMIND \o <<"-">> \o PRO \o <<"-">>
            \o SliceTo(parts[3], 4) \o <<".", ".", ".">> \o SliceLast(parts[3], 2)
            \o <<"-", "*", "*", "*", "*">>

\* generateKey(payload?): `random` stands for crypto.randomBytes(6) in hex.
SIGNATURE_LEN == 8
SignedKey(message) ==
  message \o <<"-">> \o ToUpperCase(DigestPrefix(message, SIGNATURE_LEN))
GenerateKey(payload, random) ==
  LET randomPayload == IF payload # <<>> THEN payload ELSE random
  IN SignedKey(DOCMIND \o <<"-">> \o PRO \o <<"-">> \o randomPayload)

\* Arguments of generateKey: none, 'pro', a payload of the minimum length.
GenArgs == {<<>>, <<"p", "r", "o">>, <<"A", "B", "C", "D", "E", "F">>}
RandomPayloads == {<<"A", "1", "B", "2", "C", "3", "D", "4", "E", "5", "F", "6">>}
GeneratedKeys == {GenerateKey(a, r) : a \in GenArgs, r \in RandomPayloads}

\* Keys entered by the user: generated ones, generated ones that activate()
\* accepts with one character of the signature segment replaced (by a
\* digit, a space, or the same letter in the other case) or with the end of
\* the signature segment left off, and a key signed the same way for the
\* TEAM tier.
TamperChars == {"0", "1", " "}
Tampered(key) ==
  {[key EXCEPT ![Len(key) - SIGNATURE_LEN + pos] = ch] :
     pos \in 1..SIGNATURE_LEN, ch \in TamperChars}
    \cup {[key EXCEPT ![Len(key) - SIGNATURE_LEN + pos] = LowerChar(@)] :
            pos \in 1..SIGNATURE_LEN}
\* A key with the last n characters of its signature segment left off; all
\* of them leaves an empty last segment.
Truncated(key) == {SubSeq(key, 1, Len(key) - n) : n \in 1..SIGNATURE_LEN}
TeamKeys == {SignedKey(DOCMIND \o <<"-">> \o TEAM \o <<"-">> \o r) : r \in RandomPayloads}
KeyInputs ==
  {[kind |-> "generated", key |-> k] : k \in GeneratedKeys}
    \cup {[kind |-> "tampered", key |-> x] :
            x \in UNION {Tampered(k) \ {k} :
                           k \in {g \in GeneratedKeys : ActivateResult(g).valid}}}
    \cup {[kind |-> "truncated", key |-> x] :
            x \in UNION {Truncated(k) : k \in {g \in GeneratedKeys : ActivateResult(g).valid}}}
    \cup {[kind |-> "team", key |-> k] : k \in TeamKeys}

\* activate(key) for each key the user may enter: the result, and the key as
\* it would be stored.
Activations ==
  [input \in KeyInputs |-> [result |-> ActivateResult(input.key),
                            normalized |-> Normalize(input.key)]]

\* --------------------------------------------------------------- feature gate
Tiers == {"free", "pro", "team"}
Features == {"folder-import", "drag-drop-import", "chat-export", "unlimited-documents",
             "auto-update-install", "cloud-apis", "agentic-rag", "mcp-integration",
             "prompt-templates", "team-workspaces", "shared-knowledge-base", "rbac",
             "usage-tracking", "audit-logs", "sso"}
TeamFeatures == {"team-workspaces", "shared-knowledge-base", "rbac", "usage-tracking",
                 "audit-logs", "sso"}
\* Feature names a caller may pass: the gated ones and one that is not in the map.
FeatureNames == Features \cup {"semantic-search"}

\* TIER_LEVEL[tier]: -1 stands for `undefined` (a name that is not a key).
TIER_LEVEL(tier) ==
  CASE tier = "free" -> 0 [] tier = "pro" -> 1 [] tier = "team" -> 2 [] OTHER -> -1

\* FEATURE_MIN_TIER[feature]: "none" stands for `undefined`.
FEATURE_MIN_TIER(feature) ==
  IF feature \in TeamFeatures THEN "team"
  ELSE IF feature \in Features THEN "pro" ELSE "none"

\* TIER_LABELS[tier]
TIER_LABELS(tier) ==
  CASE tier = "free" -> "Free" [] tier = "pro" -> "Pro" [] tier = "team" -> "Team"
    [] OTHER -> "undefined"

\* `currentLevel >= requiredLevel`: false when either side is undefined.
LevelAtLeastStrict(currentLevel, requiredLevel) ==
  currentLevel # -1 /\ requiredLevel # -1 /\ currentLevel > requiredLevel
LevelAtLeast(currentLevel, requiredLevel) ==
  currentLevel # -1 /\ requiredLevel # -1 /\ currentLevel >= requiredLevel

\* checkFeature(feature) under this.tier = tier; the reason is kept as the
\* label of the required tier.
CheckFeature(tier, feature) ==
  LET requiredTier == FEATURE_MIN_TIER(feature)
  IN IF requiredTier = "none"
       THEN [allowed |-> TRUE, reason |-> "none", requiredTier |-> "none"]
     ELSE IF LevelAtLeast(TIER_LEVEL(tier), TIER_LEVEL(requiredTier))
       THEN [allowed |-> TRUE, reason |-> "none", requiredTier |-> "none"]
     ELSE [allowed |-> FALSE, reason |-> TIER_LABELS(requiredTier),
           requiredTier |-> requiredTier]

\* requireFeature(feature): TRUE iff it throws.
RequireNothing(tier, feature) == FALSE
RequireFeatureThrows(tier, feature) == ~CheckFeature(tier, feature).allowed

\* ------------------------------------------------- license and gate state
NoStore == [key |-> <<>>, tier |-> "none"]
NoGated == [feature |-> "none", pc |-> "idle", effects |-> {}, allowed |-> FALSE,
            tier |-> "none"]
NoLout == [op |-> "init", kind |-> "none", valid |-> FALSE, tier |-> "none",
           error |-> "none", kept |-> FALSE, isActivated |-> FALSE, key |-> <<>>,
           feature |-> "none", allowed |-> FALSE, reason |-> "none",
           requiredTier |-> "none", ret |-> "none", hadRecord |-> FALSE,
           afterDeactivate |-> FALSE]

\* The module-level singletons right after the process has started: the
\* LicenseActivationService constructor has loaded license.json, the gate has
\* its field initialiser.
InitLic ==
  /\ store = NoStore
  /\ disk = NoStore
  /\ gateTier = "free"
  /\ registered = FALSE
  /\ gated = NoGated
  /\ lout = NoLout

\* load(): the parsed file, or null when there is none.
Load(file) == file

\* getCurrentTier()
CurrentTier(s) == IF s = NoStore THEN "community" ELSE s.tier

\* getStatus()
GetStatus(s) ==
  IF s = NoStore THEN [tier |-> "community", isActivated |-> FALSE, key |-> <<>>]
  ELSE [tier |-> s.tier, isActivated |-> TRUE, key |-> MaskKey(s.key)]

\* deactivate(): `fs.unlinkSync(this.storePath)` when the file exists.
UnlinkedKeep(file) == file
Unlinked(file) == NoStore

\* LICENSE_ACTIVATE: `if (result.valid && result.tier) featureGate.setTier(result.tier)`
SyncedTierAlways(result, current) == result.tier
SyncedTier(result, current) ==
  IF result.valid /\ result.tier # "none" THEN result.tier ELSE current

\* registerIPCHandlers: `featureGate.setTier(license.getCurrentTier())`.
RegisterHandlers ==
  /\ UNCHANGED <<relayVars, supVars, bootVars, chatVars>>
  /\ ~registered
  /\ registered' = TRUE
  /\ gateTier' = CurrentTier(store)
  /\ lout' = [NoLout EXCEPT !.op = "register", !.tier = CurrentTier(store)]
  /\ UNCHANGED <<store, disk, gated>>

\* LICENSE_ACTIVATE handler: license.activate(key), then the gate sync.
LicenseActivate ==
  /\ UNCHANGED <<relayVars, supVars, bootVars, chatVars>>
  /\ registered
  /\ \E input \in KeyInputs :
       LET result == Activations[input].result
           newStore == IF result.valid
                         THEN [key |-> Activations[input].normalized, tier |-> "pro"]
                       ELSE store
           newDisk == IF result.valid THEN newStore ELSE disk
           newTier == SyncedTier(result, gateTier)
       IN /\ store' = newStore
          /\ disk' = newDisk
          /\ gateTier' = newTier
          /\ lout' = [NoLout EXCEPT !.op = "activate", !.kind = input.kind,
                                    !.valid = result.valid, !.tier = result.tier,
                                    !.error = result.error,
                                    !.kept = (newStore = store /\ newDisk = disk
                                                /\ newTier = gateTier)]
  /\ UNCHANGED <<registered, gated>>

\* LICENSE_DEACTIVATE handler: license.deactivate(), setTier('community').
LicenseDeactivate ==
  /\ UNCHANGED <<relayVars, supVars, bootVars, chatVars>>
  /\ registered
  /\ store' = NoStore
  /\ disk' = Unlinked(disk)
  /\ gateTier' = "community"
  /\ lout' = [NoLout EXCEPT !.op = "deactivate", !.tier = "community",
                            !.hadRecord = (disk # NoStore)]
  /\ UNCHANGED <<registered, gated>>

\* LICENSE_GET_STATUS handler.
LicenseGetStatus ==
  /\ UNCHANGED <<relayVars, supVars, bootVars, chatVars>>
  /\ registered
  /\ lout' = [NoLout EXCEPT !.op = "status", !.tier = GetStatus(store).tier,
                            !.isActivated = GetStatus(store).isActivated,
                            !.key = GetStatus(store).key]
  /\ UNCHANGED <<store, disk, gateTier, registered, gated>>

\* FEATURE_GET_TIER handler: featureGate.getTier().
FeatureGetTier ==
  /\ UNCHANGED <<relayVars, supVars, bootVars, chatVars>>
  /\ registered
  /\ lout' = [NoLout EXCEPT !.op = "getTier", !.tier = gateTier]
  /\ UNCHANGED <<store, disk, gateTier, registered, gated>>

\* FEATURE_CHECK handler.
FeatureCheck ==
  /\ UNCHANGED <<relayVars, supVars, bootVars, chatVars>>
  /\ registered
  /\ \E feature \in FeatureNames :
       LET result == CheckFeature(gateTier, feature)
       IN lout' = [NoLout EXCEPT !.op = "check", !.feature = feature,
                                 !.tier = gateTier, !.allowed = result.allowed,
                                 !.reason = result.reason,
                                 !.requiredTier = result.requiredTier]
  /\ UNCHANGED <<store, disk, gateTier, registered, gated>>

\* The application is started again: new singletons, license.json re-read.
Relaunch ==
  /\ UNCHANGED <<relayVars, supVars, bootVars, chatVars>>
  /\ registered
  /\ registered' = FALSE
  /\ store' = Load(disk)
  /\ gateTier' = "free"
  /\ gated' = NoGated
  /\ lout' = [NoLout EXCEPT !.op = "relaunch", !.tier = CurrentTier(Load(disk)),
                            !.afterDeactivate = (lout.op = "deactivate")]
  /\ UNCHANGED disk

\* The gated IPC handlers: DOCUMENTS_UPLOAD_FOLDER, DOCUMENTS_INDEX_PATHS and
\* EXPORT_SAVE_FILE, by the feature each requires.
GatedFeatures == {"folder-import", "drag-drop-import", "chat-export"}

\* A gated handler from its entry to its first await: requireFeature throws
\* into the catch (`return { ..., error: String(error) }`), or the handler
\* goes on to its dialog (folder, export; no focused window throws) or its
\* HTTP request (index paths; no usable path returns an error).
GatedRequest ==
  /\ UNCHANGED <<relayVars, supVars, bootVars, chatVars>>
  /\ registered /\ gated.pc = "idle"
  /\ \E feature \in GatedFeatures, usable \in BOOLEAN :
       LET entered == [NoGated EXCEPT !.feature = feature, !.tier = gateTier]
       IN IF RequireFeatureThrows(gateTier, feature)
            THEN /\ gated' = entered
                 /\ lout' = [NoLout EXCEPT !.op = "gated", !.feature = feature,
                                           !.tier = gateTier, !.ret = "error"]
          ELSE IF feature = "drag-drop-import"
            THEN IF usable
                   THEN /\ gated' = [entered EXCEPT !.allowed = TRUE, !.pc = "http",
                                                    !.effects = {"http"}]
                        /\ lout' = [NoLout EXCEPT !.op = "gated", !.feature = feature,
                                                  !.tier = gateTier, !.allowed = TRUE]
                   ELSE /\ gated' = [entered EXCEPT !.allowed = TRUE]
                        /\ lout' = [NoLout EXCEPT !.op = "gated", !.feature = feature,
                                                  !.tier = gateTier, !.allowed = TRUE,
                                                  !.ret = "empty"]
          ELSE IF usable
            THEN /\ gated' = [entered EXCEPT !.allowed = TRUE, !.pc = "dialog",
                                             !.effects = {"dialog"}]
                 /\ lout' = [NoLout EXCEPT !.op = "gated", !.feature = feature,
                                           !.tier = gateTier, !.allowed = TRUE]
          ELSE /\ gated' = [entered EXCEPT !.allowed = TRUE]
               /\ lout' = [NoLout EXCEPT !.op = "gated", !.feature = feature,
                                         !.tier = gateTier, !.allowed = TRUE,
                                         !.ret = "error"]
  /\ UNCHANGED <<store, disk, gateTier, registered>>

\* The dialog of a folder import or an export closes: cancelled, or a path
\* was chosen and the handler posts to /admin/index or writes the file.
GatedDialogClosed ==
  /\ UNCHANGED <<relayVars, supVars, bootVars, chatVars>>
  /\ gated.pc = "dialog"
  /\ \E canceled \in BOOLEAN :
       IF canceled
         THEN /\ gated' = [gated EXCEPT !.pc = "idle"]
              /\ lout' = [NoLout EXCEPT !.op = "gatedDialog", !.feature = gated.feature,
                                        !.ret = "canceled"]
         ELSE /\ gated' = [gated EXCEPT
                             !.pc = IF gated.feature = "chat-export" THEN "write" ELSE "http",
                             !.effects = @ \cup {IF gated.feature = "chat-export"
                                                   THEN "file" ELSE "http"}]
              /\ lout' = [NoLout EXCEPT !.op = "gatedDialog", !.feature = gated.feature]
  /\ UNCHANGED <<store, disk, gateTier, registered>>

\* The HTTP request or the file write of a gated handler settles.
GatedSettled ==
  /\ UNCHANGED <<relayVars, supVars, bootVars, chatVars>>
  /\ gated.pc \in {"http", "write"}
  /\ \E ok \in BOOLEAN :
       /\ gated' = [gated EXCEPT !.pc = "idle"]
       /\ lout' = [NoLout EXCEPT !.op = "gatedSettled", !.feature = gated.feature,
                                 !.ret = IF ok THEN "done" ELSE "error"]
  /\ UNCHANGED <<store, disk, gateTier, registered>>

NextLicense ==
  \/ RegisterHandlers
  \/ LicenseActivate
  \/ LicenseDeactivate
  \/ LicenseGetStatus
  \/ FeatureGetTier
  \/ FeatureCheck
  \/ GatedRequest
  \/ GatedDialogClosed
  \/ GatedSettled
  \/ Relaunch

\* FeatureGateManager on its own: setTier, checkFeature and requireFeature
\* called with every tier name and every feature name.
GateSetTier ==
  /\ UNCHANGED <<relayVars, supVars, bootVars, chatVars>>
  /\ \E tier \in Tiers \cup {"community"} :
       /\ gateTier' = tier
       /\ lout' = [NoLout EXCEPT !.op = "setTier", !.tier = tier]
  /\ UNCHANGED <<store, disk, registered, gated>>

GateCheckFeature ==
  /\ UNCHANGED <<relayVars, supVars, bootVars, chatVars>>
  /\ \E feature \in FeatureNames :
       LET result == CheckFeature(gateTier, feature)
       IN lout' = [NoLout EXCEPT !.op = "check", !.feature = feature,
                                 !.tier = gateTier, !.allowed = result.allowed,
                                 !.reason = result.reason,
                                 !.requiredTier = result.requiredTier]
  /\ UNCHANGED <<store, disk, gateTier, registered, gated>>

GateRequireFeature ==
  /\ UNCHANGED <<relayVars, supVars, bootVars, chatVars>>
  /\ \E feature \in FeatureNames :
       lout' = [NoLout EXCEPT !.op = "require", !.feature = feature, !.tier = gateTier,
                              !.ret = IF RequireFeatureThrows(gateTier, feature)
                                        THEN "throws" ELSE "returns"]
  /\ UNCHANGED <<store, disk, gateTier, registered, gated>>

NextGate ==
  \/ GateSetTier
  \/ GateCheckFeature
  \/ GateRequireFeature

\* ---------------------------------------------------------------------
\* Application startup: app.whenReady().then(async () => { ... }).
\* ---------------------------------------------------------------------

BootTasks == {"qdrant", "python", "ollama"}
Supervisors == {"qdrant", "python"}

\* One element of the Promise.allSettled array: pc is where the call is
\* ("idle" before it is made, "probe" in its first await, "poll" in
\* waitForHealthy, "json" in response.json(), "settled"), i the health
\* checks done, result the settled outcome.
IdleTask == [pc |-> "idle", i |-> 0, result |-> "none"]

\* AutoUpdaterService.setTier(tier): pro and team get auto-download and
\* install on quit.
IsPaid(tier) == tier = "pro" \/ tier = "team"
SetTier(tier) ==
  [tier |-> tier, autoDownload |-> IsPaid(tier), autoInstallOnAppQuit |-> IsPaid(tier)]

\* The updater as its constructor leaves it (packaged build).
NoUpdater == [tier |-> "free", autoDownload |-> FALSE, autoInstallOnAppQuit |-> FALSE]

InitBoot ==
  /\ boot = [ready |-> FALSE, task |-> [t \in BootTasks |-> IdleTask]]
  /\ window = "none"
  /\ updater = NoUpdater

Settled(result) == [pc |-> "settled", i |-> 0, result |-> result]

\* The retries each supervisor's waitForHealthy is given.
BootRetries(t) == IF t = "qdrant" THEN QDRANT_HEALTH_RETRIES ELSE PYTHON_HEALTH_RETRIES

\* Promise.allSettled resolves when every element is fulfilled or rejected.
AnySettled(b) == b.ready /\ \E t \in BootTasks : b.task[t].pc = "settled"
AllSettled(b) == b.ready /\ \A t \in BootTasks : b.task[t].pc = "settled"

\* The callback up to its await: the three calls are made one after the
\* other, each running to its first await (the health probe, the fetch).
WhenReady ==
  /\ UNCHANGED <<relayVars, supVars, licVars, chatVars>>
  /\ ~boot.ready
  /\ boot' = [ready |-> TRUE,
              task |-> [t \in BootTasks |-> [IdleTask EXCEPT !.pc = "probe"]]]
  /\ UNCHANGED <<window, updater>>

\* start(): the probe answers. Healthy returns true; otherwise the binary
\* or path is missing (false), spawn throws (rejected), or the child is
\* spawned and waitForHealthy begins.
BootProbed ==
  /\ UNCHANGED <<relayVars, supVars, licVars, chatVars>>
  /\ \E t \in Supervisors, next \in {"true", "false", "rejected", "poll"} :
       /\ boot.task[t].pc = "probe"
       /\ boot' = [boot EXCEPT !.task[t] =
                     IF next = "poll" THEN [IdleTask EXCEPT !.pc = "poll"]
                     ELSE Settled(next)]
  /\ UNCHANGED <<window, updater>>

\* waitForHealthy: one health check; true when healthy, false after the
\* last retry.
BootPoll ==
  /\ UNCHANGED <<relayVars, supVars, licVars, chatVars>>
  /\ \E t \in Supervisors, ok \in BOOLEAN :
       /\ boot.task[t].pc = "poll"
       /\ boot' = [boot EXCEPT !.task[t] =
                     IF ok THEN Settled("true")
                     ELSE IF Exhausted(@.i + 1, BootRetries(t)) THEN Settled("false")
                     ELSE [@ EXCEPT !.i = @ + 1]]
  /\ UNCHANGED <<window, updater>>

\* check(): the fetch of /api/tags settles. Not ok or unreachable returns
\* false; ok goes on to response.json().
OllamaFetched ==
  /\ UNCHANGED <<relayVars, supVars, licVars, chatVars>>
  /\ boot.task["ollama"].pc = "probe"
  /\ \E ok \in BOOLEAN :
       boot' = [boot EXCEPT !.task["ollama"] =
                  IF ok THEN [IdleTask EXCEPT !.pc = "json"] ELSE Settled("false")]
  /\ UNCHANGED <<window, updater>>

\* check(): response.json() settles; a parse error is caught and returns false.
OllamaParsed ==
  /\ UNCHANGED <<relayVars, supVars, licVars, chatVars>>
  /\ boot.task["ollama"].pc = "json"
  /\ \E ok \in BOOLEAN :
       boot' = [boot EXCEPT !.task["ollama"] =
                  Settled(IF ok THEN "true" ELSE "false")]
  /\ UNCHANGED <<window, updater>>

\* The continuation after `await Promise.allSettled([...])`: createWindow(),
\* then `updater.setTier(license.getCurrentTier())` and updater.start().
CreateWindow ==
  /\ UNCHANGED <<relayVars, supVars, licVars, chatVars>>
  /\ AllSettled(boot)
  /\ window = "none"
  /\ window' = "open"
  /\ updater' = SetTier(CurrentTier(store))
  /\ UNCHANGED boot

\* The user closes the window (the application stays up on macOS).
WindowClosed ==
  /\ UNCHANGED <<relayVars, supVars, licVars, chatVars>>
  /\ window \in {"open", "reopened"}
  /\ window' = "closed"
  /\ UNCHANGED <<boot, updater>>

\* app.on('activate'), registered after createWindow(): a window is created
\* when none is open.
Activate ==
  /\ UNCHANGED <<relayVars, supVars, licVars, chatVars>>
  /\ window = "closed"
  /\ window' = "reopened"
  /\ UNCHANGED <<boot, updater>>

NextBoot ==
  \/ WhenReady
  \/ BootProbed
  \/ BootPoll
  \/ OllamaFetched
  \/ OllamaParsed
  \/ CreateWindow
  \/ WindowClosed
  \/ Activate

\* ------------------------------------------------------------- chat store
\* One assistant message per sendMessage, identified by the number of the
\* request.  Its content is kept as the set of requests whose tokens were
\* appended to it, its sources as the request they came from (0 = none).
NoMessage == [present |-> FALSE, content |-> {}, sources |-> 0]
NoCout == [op |-> "init", kind |-> "none", origin |-> 0, target |-> 0]

InitChat ==
  /\ chat = [messages |-> [r \in Sessions |-> NoMessage], isStreaming |-> FALSE,
             error |-> FALSE, sessionId |-> 0]
  /\ cleanupListeners = 0
  /\ sent = 0
  /\ toMain = <<>>
  /\ toRenderer = <<>>
  /\ main = [active |-> 0, handler |-> [r \in Sessions |-> "none"],
             aborted |-> [r \in Sessions |-> FALSE]]
  /\ cout = NoCout

\* sendMessage: add the empty assistant message, isStreaming, then
\* setupStreamListeners(assistantMessage.id) and the invoke of chat.send.  The
\* resolved value of the invoke is not looked at; the handler catches all its
\* errors, so the invoke does not reject.
SendMessage ==
  /\ UNCHANGED <<relayVars, supVars, licVars, bootVars>>
  /\ sent < MaxSessions /\ Len(toMain) < MaxInFlight
  /\ LET r == sent + 1
     IN /\ sent' = r
        /\ chat' = [chat EXCEPT !.messages[r] = [NoMessage EXCEPT !.present = TRUE],
                                !.isStreaming = TRUE, !.error = FALSE]
        /\ cleanupListeners' = r
        /\ toMain' = Append(toMain, [call |-> "send", r |-> r])
        /\ cout' = [NoCout EXCEPT !.op = "sendMessage", !.target = r]
  /\ UNCHANGED <<toRenderer, main>>

\* abortStream: invoke chat.abort, remove the listeners, isStreaming false.
AbortStream ==
  /\ UNCHANGED <<relayVars, supVars, licVars, bootVars>>
  /\ sent > 0 /\ Len(toMain) < MaxInFlight
  /\ toMain' = Append(toMain, [call |-> "abort", r |-> 0])
  /\ cleanupListeners' = 0
  /\ chat' = [chat EXCEPT !.isStreaming = FALSE]
  /\ cout' = [NoCout EXCEPT !.op = "abortStream"]
  /\ UNCHANGED <<sent, toRenderer, main>>

\* clearMessages: remove the listeners and reset the store.
ClearMessages ==
  /\ UNCHANGED <<relayVars, supVars, licVars, bootVars>>
  /\ sent > 0
  /\ cleanupListeners' = 0
  /\ chat' = [messages |-> [r \in Sessions |-> NoMessage], isStreaming |-> FALSE,
              error |-> FALSE, sessionId |-> 0]
  /\ cout' = [NoCout EXCEPT !.op = "clearMessages"]
  /\ UNCHANGED <<sent, toMain, toRenderer, main>>

\* The listeners of setupStreamListeners(assistantMsgId) applied to one event.
Applied(state, assistantMsgId, ev) ==
  CASE ev.kind = "token" ->
         [state EXCEPT !.messages[assistantMsgId].content = @ \cup {ev.origin}]
    [] ev.kind = "sources" ->
         [state EXCEPT !.messages[assistantMsgId].sources = ev.origin]
    [] ev.kind = "done" ->
         [state EXCEPT !.isStreaming = FALSE, !.sessionId = ev.origin]
    [] OTHER ->
         [state EXCEPT !.isStreaming = FALSE, !.error = TRUE]

\* The listeners a chat:complete or chat:error leaves registered: cleanup().
CleanedUp(assistantMsgId, ev) ==
  IF ev.kind \in {"done", "error"} THEN 0 ELSE assistantMsgId

\* The renderer handles the next pushed event: the registered listener of its
\* channel runs, whichever request the event came from; with no listener
\* registered the event is dropped.
Deliver ==
  /\ UNCHANGED <<relayVars, supVars, licVars, bootVars>>
  /\ toRenderer # <<>>
  /\ LET ev == Head(toRenderer)
     IN /\ toRenderer' = Tail(toRenderer)
        /\ IF cleanupListeners = 0
             THEN UNCHANGED <<chat, cleanupListeners>>
             ELSE /\ chat' = Applied(chat, cleanupListeners, ev)
                  /\ cleanupListeners' = CleanedUp(cleanupListeners, ev)
        /\ cout' = [op |-> "deliver", kind |-> ev.kind, origin |-> ev.origin,
                    target |-> cleanupListeners]
  /\ UNCHANGED <<sent, toMain, main>>

\* The main process handles the next invoke.  CHAT_SEND aborts the controller
\* it holds and starts a handler with its own; CHAT_ABORT aborts and drops it.
MainReceive ==
  /\ UNCHANGED <<relayVars, supVars, licVars, bootVars>>
  /\ toMain # <<>>
  /\ LET msg == Head(toMain)
         old == main.active
         stopped == IF old # 0 THEN [main.aborted EXCEPT ![old] = TRUE] ELSE main.aborted
     IN /\ toMain' = Tail(toMain)
        /\ main' = IF msg.call = "send"
                     THEN [active |-> msg.r,
                           handler |-> [main.handler EXCEPT ![msg.r] = "running"],
                           aborted |-> stopped]
                     ELSE [main EXCEPT !.active = 0, !.aborted = stopped]
        /\ cout' = [NoCout EXCEPT !.op = msg.call, !.origin = msg.r]
  /\ UNCHANGED <<chat, cleanupListeners, sent, toRenderer>>

\* A running handler forwards one record of its stream: webContents.send on
\* the channel of the record's type, with no mark of the request.
MainPush(r) ==
  /\ UNCHANGED <<relayVars, supVars, licVars, bootVars>>
  /\ main.handler[r] = "running" /\ ~main.aborted[r]
  /\ Len(toRenderer) < MaxInFlight
  /\ \E kind \in Kinds :
       toRenderer' = Append(toRenderer, [kind |-> kind, origin |-> r])
  /\ cout' = [NoCout EXCEPT !.op = "push", !.origin = r]
  /\ UNCHANGED <<chat, cleanupListeners, sent, toMain, main>>

\* `finally`: the handler gives up the controller if it is still its own.
Finished(m, r) ==
  [m EXCEPT !.handler[r] = "returned", !.active = IF @ = r THEN 0 ELSE @]

\* The handler's catch block for an error that is not an abort: chat:error.
MainFails(r) ==
  /\ UNCHANGED <<relayVars, supVars, licVars, bootVars>>
  /\ main.handler[r] = "running" /\ ~main.aborted[r]
  /\ Len(toRenderer) < MaxInFlight
  /\ toRenderer' = Append(toRenderer, [kind |-> "error", origin |-> r])
  /\ main' = Finished(main, r)
  /\ cout' = [NoCout EXCEPT !.op = "fails", !.origin = r]
  /\ UNCHANGED <<chat, cleanupListeners, sent, toMain>>

\* The handler returns without an event: the body ended, or its await
\* rejected with AbortError.
MainReturns(r) ==
  /\ UNCHANGED <<relayVars, supVars, licVars, bootVars>>
  /\ main.handler[r] = "running"
  /\ main' = Finished(main, r)
  /\ cout' = [NoCout EXCEPT !.op = "returns", !.origin = r]
  /\ UNCHANGED <<chat, cleanupListeners, sent, toMain, toRenderer>>

NextChat ==
  \/ SendMessage
  \/ AbortStream
  \/ ClearMessages
  \/ Deliver
  \/ MainReceive
  \/ \E r \in Sessions : MainPush(r)
  \/ \E r \in Sessions : MainFails(r)
  \/ \E r \in Sessions : MainReturns(r)

Init == InitRelay /\ InitSup /\ InitLic /\ InitBoot /\ InitChat

\* The relay and the supervisors share no state; each is explored on its own.
SpecRelay == Init /\ [][NextRelay]_vars
\* The relay with every pending await eventually settling.
SpecStream == Init /\ [][NextRelay]_vars /\ \A s \in Sessions : WF_vars(RelayStep(s))
SpecSup == Init /\ [][NextSup]_vars
SpecChat == Init /\ [][NextChat]_vars
SpecLicense == Init /\ [][NextLicense]_vars
SpecGate == Init /\ [][NextGate]_vars
SpecBoot == Init /\ [][NextBoot]_vars

\* Startup together with the license handlers; the supervisors' polling is
\* left out, its outcomes being among those of the probe.
NextUpdater ==
  \/ RegisterHandlers
  \/ LicenseActivate
  \/ LicenseDeactivate
  \/ WhenReady
  \/ BootProbed
  \/ OllamaFetched
  \/ OllamaParsed
  \/ CreateWindow

SpecUpdater == Init /\ [][NextUpdater]_vars

\* Pending probes settle and the renderer's interval keeps polling.
SpecStatus ==
  /\ Init /\ [][NextStatus]_vars
  /\ WF_vars(StartProbed) /\ WF_vars(StartPoll) /\ WF_vars(ServicesStatus)

\* ------------------------------------------------------------------ relay claims
NonTerminal(s) == session[s].pc \in {"fetch", "errtext", "read"} /\ ~signal[s]

\* C1: once a later chat.send has superseded a stream, no chat event of the
\* superseded stream reaches the window.
C1_NoEventAfterSupersede ==
  (out.pushed /\ out.sid < started) => ~signal[out.sid]

\* C2: at most one upstream call is live, at most one session is
\* non-terminal, and a live upstream call always belongs to the controller
\* the relay still holds (a released token leaves no live call behind).
C2_OneLiveUpstream ==
  /\ Cardinality({s \in Sessions : upstream[s] = "live"}) <= 1
  /\ Cardinality({s \in Sessions : NonTerminal(s)}) <= 1
  /\ \A s \in Sessions : upstream[s] = "live" => activeAbortController = s

\* C8: malformed records are counted cumulatively over the reads of one
\* session, starting at zero; up to 20 the session keeps reading and a
\* well-formed done line is forwarded as chat:complete; the 21st cancels the
\* reader and ends the session with the malformed-lines error.
C8_Tolerance ==
  /\ \A s \in Sessions : session[s].malformedCount <= MaxMalformed
  /\ \A s \in Sessions : session[s].pc # "read" => session[s].malformedCount = 0
  /\ out.err = "malformed" =>
       /\ out.malformed = MaxMalformed + 1
       /\ out.pushed /\ out.ret = "error"
       /\ session[out.sid].pc = "returned"
       /\ out.cancelled /\ upstream[out.sid] = "closed"
  /\ (out.op = "chunk" /\ out.err = "none") =>
       /\ session[out.sid].pc = "read"
       /\ out.doneLine => out.complete

C8_Cumulative ==
  \A s \in Sessions :
    (session[s].pc = "read" /\ session'[s].pc = "read" /\ out'.op = "chunk" /\ out'.sid = s)
      => session'[s].malformedCount = session[s].malformedCount + out'.badLines

C8_MalformedTolerance == []C8_Tolerance /\ [][C8_Cumulative]_vars

C8_Witness == out.err = "malformed" /\ out.malformed = MaxMalformed + 1

\* C9: an idle timeout ends the session with the timeout error sent to the
\* window and the controller released; exactly one idle timer is armed while
\* a read is pending and none otherwise.
C9_IdleTimeout ==
  /\ out.err = "timeout" =>
       /\ out.pushed /\ out.ret = "error"
       /\ session[out.sid].pc = "returned"
       /\ activeAbortController = 0
  /\ \A s \in Sessions : session[s].timers = IF session[s].pc = "read" THEN 1 ELSE 0

C9_Witness == out.err = "timeout" /\ out.op = "timeout"

\* C10: forwarding a done record as chat:complete ends the session and
\* releases the controller, and nothing of that response is forwarded later.
C10_DoneTerminates ==
  /\ out.complete => (session[out.sid].pc = "returned" /\ activeAbortController # out.sid)
  /\ ~out.afterComplete

\* C11: chat.abort() always returns true, and a stream that chat.abort() ended
\* (the latest one, so no later send superseded it) returns the benign
\* aborted outcome without any chat:error event reaching the window.
C11_AbortBenign ==
  /\ out.op = "abort" => out.ret = "true"
  /\ (/\ out.sid # 0 /\ out.sid = started /\ signal[out.sid]
      /\ session[out.sid].pc = "returned" /\ out.op # "abort")
       => (out.ret = "aborted" /\ ~out.pushed)

\* ------------------------------------------------- license and gate claims

\* C12: a valid key with one character of its signature segment changed is
\* rejected by activate(), and a rejected activate() leaves the stored
\* record, the file and the tier as they were.
C12_TamperRejected ==
  /\ (lout.op = "activate" /\ lout.kind = "tampered") => ~lout.valid
  /\ (lout.op = "activate" /\ ~lout.valid) => lout.kept

\* C13: every key generateKey returns, with any argument or none, is accepted
\* by activate() with tier 'pro'.
C13_RoundTrip ==
  (lout.op = "activate" /\ lout.kind = "generated")
    => (lout.valid /\ lout.tier = "pro" /\ store # NoStore /\ store.tier = "pro"
          /\ GetStatus(store).isActivated)

\* The rank of a tier name under free < pro < team; 'community', the early
\* name of the free tier, ranks with it.
Rank(tier) == CASE tier = "pro" -> 1 [] tier = "team" -> 2 [] OTHER -> 0
Below(tier, feature) ==
  FEATURE_MIN_TIER(feature) # "none" /\ Rank(tier) < Rank(FEATURE_MIN_TIER(feature))

C15_CheckFeature ==
  lout.op = "check"
    => (/\ lout.allowed <=> ~Below(lout.tier, lout.feature)
        /\ ~lout.allowed => (/\ lout.reason # "none"
                             /\ lout.requiredTier = FEATURE_MIN_TIER(lout.feature)))
C15_Witness ==
  /\ lout.op = "check" /\ lout.tier = "pro" /\ ~lout.allowed
  /\ lout.requiredTier = "team" /\ lout.reason = "Team"

\* C16: once the handlers are registered the gate's tier equals the license
\* service's current tier, after the startup load and after every activate
\* (accepted or rejected) and deactivate; the gate's tier changes in no
\* other step.
C16_GateSynced ==
  /\ [](registered => gateTier = CurrentTier(store))
  /\ [][gateTier' # gateTier
          => lout'.op \in {"register", "activate", "deactivate", "relaunch"}]_vars
C16_Witness ==
  /\ lout.op = "activate" /\ ~lout.valid /\ store # NoStore
  /\ gateTier = "pro" /\ CurrentTier(store) = "pro"

\* C17: a folder import, index-paths or export request made while the tier
\* is below the required one performs no side effect and returns an error
\* result; it is never let through.
C17_GatedShortCircuit ==
  /\ (gated.feature # "none" /\ Below(gated.tier, gated.feature))
       => (gated.effects = {} /\ gated.pc = "idle" /\ ~gated.allowed)
  /\ (lout.op = "gated" /\ Below(lout.tier, lout.feature))
       => (lout.ret = "error" /\ ~lout.allowed)
C17_Witness ==
  /\ lout.op = "gated" /\ lout.feature = "chat-export" /\ Below(lout.tier, lout.feature)
  /\ lout.ret = "error" /\ gated.effects = {} /\ store = NoStore

\* C18: the key getStatus() returns withholds at least one character of the
\* payload and shows no character of the signature; with no record the
\* status is the lowest tier, not activated, no key.
C18_MaskedStatus ==
  lout.op = "status"
    => IF store = NoStore
         THEN Rank(lout.tier) = 0 /\ ~lout.isActivated /\ lout.key = <<>>
       ELSE LET payload == KeyParts(store.key)[3]
                shown == KeyParts(lout.key)
            IN /\ Len(shown[3]) - 3 < Len(payload)
               /\ shown[Len(shown)] = <<"*", "*", "*", "*">>

\* C19: a correctly signed DOCMIND-TEAM-... key is accepted by activate(),
\* tier 'team' is persisted, and the team features are allowed.
C19_TeamKey ==
  (lout.op = "activate" /\ lout.kind = "team")
    => (/\ lout.valid /\ lout.tier = "team"
        /\ store # NoStore /\ store.tier = "team" /\ disk = store
        /\ \A f \in TeamFeatures : CheckFeature(gateTier, f).allowed)

\* C21: activate() accepts a key only if its signature segment is exactly the
\* first 8 hex digits of the keyed hash of the segments before it; a key
\* whose last segment is shorter, or empty, is rejected.
C21_ExactSignature ==
  /\ (lout.op = "activate" /\ lout.valid)
       => LET parts == KeyParts(store.key)
              signature == parts[Len(parts)]
              message == JoinDash(SubSeq(parts, 1, Len(parts) - 1))
          IN /\ Len(signature) = SIGNATURE_LEN
             /\ ToLowerCase(signature) = DigestPrefix(message, SIGNATURE_LEN)
  /\ (lout.op = "activate" /\ lout.kind = "truncated") => ~lout.valid

\* ------------------------------------------------------------ startup claims

\* C20: the window is created only after qdrant.start(), python.start() and
\* ollama.check(), which are started together, have all settled, and it is
\* created then whatever their outcomes.
C20_WindowAfterSettled ==
  /\ window # "none" => \A t \in BootTasks : boot.task[t].pc = "settled"
  /\ boot.ready => \A t \in BootTasks : boot.task[t].pc # "idle"
  /\ (window = "none" /\ \A t \in BootTasks : boot.task[t].pc = "settled")
       => ENABLED CreateWindow
C20_Witness ==
  /\ window = "open"
  /\ boot.task["qdrant"].result = "rejected"
  /\ boot.task["python"].result = "false"
  /\ boot.task["ollama"].result = "true"

\* ------------------------------------------------------- supervisor claims
\* C3: an exit with a non-zero, non-null code sends service:crashed to the
\* windows from the exit handler, for either sidecar.
C3_CrashPush ==
  (sout.op = "exit" /\ sout.code = "nonzero") => sout.crashPush

\* C4: SIGKILL goes only to the process whose own grace timer has fired,
\* at most once per process, and a process still running when its grace
\* timer fires has then received it exactly once.
C4_GracefulThenForced ==
  /\ \A p \in Pids : procs[p].kills <= 1
  /\ (sout.op = "stopTimer" /\ sout.killed # 0) => sout.killed = sout.pid
  /\ (sout.op = "stopTimer" /\ procs[sout.pid].state = "running")
       => procs[sout.pid].kills = 1

C6_ExternalDetection ==
  (sout.op = "startProbed" /\ sout.ok) =>
    /\ healthy /\ Status(healthy, process) = "healthy"
    /\ sout.ret = "true"
    /\ sout.pid = 0
    /\ process = sout.before

C6_Witness == sout.op = "startProbed" /\ sout.ok /\ process = 0 /\ spawned = 0

\* C7: whenever a stop() has completed, from whatever state it was called in,
\* the handle is null and getStatus() reports stopped.
C7_AlwaysStopped ==
  sout.stopped => (process = 0 /\ Status(healthy, process) = "stopped")

\* C25: once the application has started, and after every accepted
\* activation and every deactivation, auto-download is enabled exactly when
\* the license service's current tier is pro or team.
C25_UpdaterFollowsLicense ==
  (window # "none" /\ registered)
    => (updater.autoDownload <=> CurrentTier(store) \in {"pro", "team"})

\* C28: every stream the relay has started is eventually aborted or
\* superseded, or a chat:complete or chat:error is pushed for it, also when
\* the upstream closes without a `done` record; and a handler that has
\* returned no longer holds the cancellation token.
C28_TerminalOutcome ==
  /\ \A s \in Sessions :
       (out.sid = s /\ out.op = "fetchOk")
         ~> (signal[s] \/ (out.sid = s /\ out.terminal))
  /\ [](\A s \in Sessions : session[s].pc = "returned" => activeAbortController # s)

\* C30: the tier that license.getStatus(), license.deactivate() and
\* feature.getTier() report is one of free, pro and team, and it is free
\* when there is no license record.
C30_TierInSet ==
  lout.op \in {"status", "deactivate", "getTier"}
    => /\ lout.tier \in Tiers
       /\ store = NoStore => lout.tier = "free"

\* C29: an event that the chat store applies was produced by the request
\* whose assistant message the listeners were set up for: no token, sources,
\* complete or error event of one request changes the message or the
\* streaming flag of another.
C29_EventAttribution ==
  (cout.op = "deliver" /\ cout.target # 0) => cout.origin = cout.target

\* ------------------------------------------- supervisor claims, continued

\* C22: after a process that was reported healthy exits unexpectedly (no
\* stop() was ever called), getStatus() reports `unhealthy`.
C22_UnhealthyAfterCrash ==
  (/\ sout.op = "exit" /\ sout.wasHealthy /\ sout.pid = sout.before
   /\ WasCrash(sout.code) /\ restarts = 0 /\ phase = "running")
    => Status(healthy, process) = "unhealthy"

\* A spawned process that is running and has not been sent SIGKILL.
Live(p) == procs[p].state = "running" /\ procs[p].kills = 0

\* C24: whatever the interleaving of restart requests, a supervisor has at
\* most one live spawned process, and every live process it spawned is the
\* one its handle refers to.
C24_OneOwnedProcess ==
  /\ Cardinality({p \in Pids : Live(p)}) <= 1
  /\ \A p \in Pids : Live(p) => process = p

\* C26: once a later start() has spawned a new process, the exit event of an
\* earlier process does not alter the handle that refers to the newer one.
C26_NoStaleCallback ==
  (sout.op = "exit" /\ sout.before # 0 /\ sout.before # sout.pid)
    => process = sout.before

\* C27: an exit that follows a stop() (the supervisor sent SIGTERM or
\* SIGKILL to the process) never produces a service:crashed event, whatever
\* the exit code.
C27_NoCrashAfterStop ==
  (sout.op = "exit" /\ (sout.stopped \/ sout.killed > 0)) => ~sout.crashPush

\* C23: when start() has returned false after the last retry and the process
\* keeps running, later status polls eventually report the service healthy.
C23_SlowStartVisible ==
  (sout.op = "startExhausted" /\ process # 0)
    ~> (process = 0 \/ (sout.op = "status" /\ sout.ret = "healthy"))

====
